---------------------------- MODULE Spec2Model ----------------------------
(***************************************************************************)
(* The two log parsers of shadow-plugin-tor's tools directory:             *)
(*   tools/parse-payment.py  (payment-channel statistics)                  *)
(*   tools/parse-torctl.py   (tor control-port bandwidth statistics)       *)
(* Both have the same shape: run() hands the discovered paths to a         *)
(* multiprocessing Pool, each worker scans one file line by line, the      *)
(* parent merges the returned items into {'nodes': {...}} and dump()s it.  *)
(*                                                                         *)
(* Three specifications share the variables:                               *)
(*   Spec       run(): pool, workers, signals, merge, dump                 *)
(*   SpecParse  the scan loop of one worker over one file, line by line    *)
(*   SpecMerge  the merge loop of run() over any list of worker results    *)
(***************************************************************************)
EXTENDS Integers, Sequences, FiniteSets, TLC

VARIABLES
    tool,          \* which script runs: "payment" or "torctl"
    logfilepaths,  \* run(): the list find_file_paths returned
    nprocesses,    \* args.nprocesses, the size of the Pool
    par,           \* run(): the parent's position and locals (pc, r, d, counters)
    pool,          \* the worker processes: SIGINT disposition, position, locals
    mr,            \* the MapResult: per task, queued / running / done / failed
    src,           \* per task, the LogSource opened for it and whether it was released
    outfile,       \* what dump() wrote: <<>> (no file) or <<document>>
    intr,          \* interrupts taken: where the parent took one, whether a worker took one
    lines,         \* SpecParse: the lines of the file read so far
    loc,           \* SpecParse: the locals of process_*_log (d, name, ...)
    ppc            \* SpecParse: "scan" inside the for loop, "end" after the return

vars == <<tool, logfilepaths, nprocesses, par, pool, mr, src, outfile, intr,
          lines, loc, ppc>>

runVars == <<par, pool, mr, src, outfile, intr, nprocesses>>
parseVars == <<lines, loc, ppc>>

-----------------------------------------------------------------------------
(* Bounds of the model *)

MaxPayLines == 2
MaxTorLines == 4
MaxFiles == 2
MaxProcs == 2
MaxResults == 3

-----------------------------------------------------------------------------
(* Python values *)

\* None and a present value: a sequence of length 0 or 1.
None == <<>>
Some(x) == <<x>>

\* {} : the empty dict.
EmptyDict == [k \in {} |-> 0]

\* dict[k] = v
DictPut(f, k, v) == [x \in DOMAIN f \cup {k} |-> IF x = k THEN v ELSE f[x]]

Range(s) == {s[i] : i \in DOMAIN s}

\* The decimal strings that occur in the modelled files, with what int()
\* makes of them; int() raises ValueError on every other string.
IntTab ==
    ("1" :> 1) @@ ("3" :> 3) @@ ("5" :> 5) @@ ("6" :> 6) @@ ("50" :> 50) @@
    ("75" :> 75) @@ ("100" :> 100) @@ ("200" :> 200)

IsInt(s) == s \in DOMAIN IntTab
int(s) == IntTab[s]

\* float() takes what int() takes and the strings with a fraction; the value
\* is kept in tenths.
FloatTab ==
    ("0.5" :> 5) @@ ("1.5" :> 15) @@ ("5.0" :> 50) @@ ("10.2" :> 102) @@
    ("10.9" :> 109) @@ ("11.0" :> 110) @@ ("-0.5" :> -5)

IsFloat(s) == s \in DOMAIN FloatTab \/ IsInt(s)
float(s) == IF s \in DOMAIN FloatTab THEN FloatTab[s] ELSE 10 * IntTab[s]

\* int(x) of a float x (in tenths): truncation toward zero.
TruncTenths(t) == IF t >= 0 THEN t \div 10 ELSE -((-t) \div 10)

-----------------------------------------------------------------------------
(* parse-payment.py: the body of the for loop of process_payment_log *)

MetricSeq == <<"numpayments", "lifetime", "ttestablish", "ttpayment",
               "ttpaysuccess", "ttclose">>
MetricSet == Range(MetricSeq)
ChnTypes == {"guard", "middle", "exit"}

\* As NewPaymentRecord with the 'exit' entry left out.
NewPaymentRecordBug == [c \in {"guard", "middle"} |-> [m \in MetricSet |-> EmptyDict]]
\* d as built before the loop (lines 127-133).
NewPaymentRecord == [c \in ChnTypes |-> [m \in MetricSet |-> EmptyDict]]

\* A line of a payment log: whether it contains 'mt_log_nanochannel', whether
\* it has text between '{' and '}', and that text split on ', ' and each piece
\* split on ': ' (a piece without ': ' is a sequence of length 1).
PayLineOf(marker, braces, pairs) == [marker |-> marker, braces |-> braces, pairs |-> pairs]

\* {x.split(': ')[0] : x.split(': ')[1] for x in data.split(', ')}; a later
\* pair with the same key replaces an earlier one.  Defined when every piece
\* has a ': '.
PairsOK(line) == line.braces /\ \A i \in DOMAIN line.pairs : Len(line.pairs[i]) >= 2
Parsed(line) ==
    [k \in {line.pairs[i][1] : i \in DOMAIN line.pairs} |->
        LET last == CHOOSE i \in DOMAIN line.pairs :
                        /\ line.pairs[i][1] = k
                        /\ \A j \in DOMAIN line.pairs : line.pairs[j][1] = k => j <= i
        IN  line.pairs[last][2]]

\* Lines 138-143: everything that can raise before the first write to d.
PayHeaderOK(d, line) ==
    /\ PairsOK(line)
    /\ "time" \in DOMAIN Parsed(line)
    /\ IsInt(Parsed(line)["time"])
    /\ "type" \in DOMAIN Parsed(line)
    /\ Parsed(line)["type"] \in DOMAIN d

\* Lines 143-154: the six 'if second not in ...: ... = []'.
PayWithBuckets(d, c, second) ==
    [d EXCEPT ![c] = [m \in DOMAIN d[c] |->
        IF m \in MetricSet /\ second \notin DOMAIN d[c][m]
        THEN DictPut(d[c][m], second, <<>>)
        ELSE d[c][m]]]

\* int(parsed[m]) for numpayments, float(parsed[m]) for the rest: does it raise?
PayFieldOK(p, m) ==
    /\ m \in DOMAIN p
    /\ IF m = "numpayments" THEN IsInt(p[m]) ELSE IsFloat(p[m])
PayFieldVal(p, m) == IF m = "numpayments" THEN int(p[m]) ELSE float(p[m])

\* Lines 156-161: the appends, in order; the first one that raises ends the
\* line (the bare except) with the earlier appends kept.
RECURSIVE PayAppendFrom(_, _, _, _, _)
PayAppendFrom(d, c, second, p, i) ==
    IF i > Len(MetricSeq) THEN d
    ELSE LET m == MetricSeq[i] IN
         IF ~PayFieldOK(p, m) THEN d
         ELSE PayAppendFrom(
                [d EXCEPT ![c][m][second] = Append(@, PayFieldVal(p, m))],
                c, second, p, i + 1)

\* The body of the for loop (lines 136-163) on one line.
PayLine(d, line) ==
    IF ~line.marker THEN d
    ELSE IF ~PayHeaderOK(d, line) THEN d
    ELSE LET p == Parsed(line)
             second == int(p["time"])
             c == p["type"]
         IN  PayAppendFrom(PayWithBuckets(d, c, second), c, second, p, 1)

RECURSIVE PayScan(_, _, _)
PayScan(d, ls, i) == IF i > Len(ls) THEN d ELSE PayScan(PayLine(d, ls[i]), ls, i + 1)

\* The lines the model reads.  A well-formed record, and the ways it can be
\* wrong.
PayRec(time, type, np, lt) ==
    << <<"time", time>>, <<"type", type>>, <<"numpayments", np>>,
       <<"lifetime", lt>>, <<"ttestablish", "0.5">>, <<"ttpayment", "0.5">>,
       <<"ttpaysuccess", "1.5">>, <<"ttclose", "1">> >>

DropKey(pairs, k) == SelectSeq(pairs, LAMBDA p : p[1] # k)
SetKey(pairs, k, v) == [i \in DOMAIN pairs |-> IF pairs[i][1] = k THEN <<k, v>> ELSE pairs[i]]

GoodPay == PayRec("5", "guard", "1", "0.5")

PayLines ==
    {PayLineOf(TRUE, TRUE, PayRec(t, c, np, "0.5")) :
        t \in {"5", "6"}, c \in {"guard", "exit"}, np \in {"1", "3"}}
    \cup {PayLineOf(TRUE, TRUE, DropKey(GoodPay, k)) :
            k \in {"time", "type", "numpayments", "lifetime", "ttclose"}}
    \cup {PayLineOf(TRUE, TRUE, SetKey(GoodPay, k, "x")) :
            k \in {"time", "numpayments", "lifetime", "ttclose"}}
    \cup {PayLineOf(TRUE, TRUE, SetKey(GoodPay, "time", "5.0")),
          PayLineOf(TRUE, TRUE, SetKey(GoodPay, "numpayments", "1.5")),
          PayLineOf(TRUE, TRUE, SetKey(GoodPay, "type", "client")),
          PayLineOf(TRUE, TRUE, Append(GoodPay, <<"junk">>)),
          PayLineOf(TRUE, FALSE, <<>>),
          PayLineOf(FALSE, FALSE, <<>>),
          PayLineOf(FALSE, TRUE, GoodPay)}


-----------------------------------------------------------------------------
(* parse-torctl.py: the body of the for loop of process_tor_log *)

\* A line of a control log is the sequence of its whitespace-separated tokens
\* (line.strip().split()).  The three re.search patterns, on the tokens:
StartWords == <<"Starting", "torctl", "program", "on", "host">>

MatchStart(line) ==
    \E i \in DOMAIN line :
        /\ i + Len(StartWords) - 1 <= Len(line)
        /\ SubSeq(line, i, i + Len(StartWords) - 1) = StartWords

MatchBoot(line) ==
    \E i \in DOMAIN line :
        i + 1 <= Len(line) /\ line[i] = "Bootstrapped" /\ line[i + 1] \in {"100", "100%"}

\* "\s650\sBW\s": a token before the 650, and the newline after BW counts.
MatchBW(line) ==
    \E i \in DOMAIN line :
        i >= 2 /\ i + 1 <= Len(line) /\ line[i] = "650" /\ line[i + 1] = "BW"

\* Python's parts[k] is the token k + 1 of the sequence.
Part(line, k) == line[k + 1]

\* Locals of process_tor_log before the loop (lines 123-126).
NewTorRecord == [bytes_read |-> EmptyDict, bytes_written |-> EmptyDict]
NewTorLocals ==
    [d |-> NewTorRecord, name |-> None, total_read |-> 0, total_write |-> 0,
     boot_succeeded |-> FALSE]

\* Lines 140-142 raise unless the three tokens convert.
BWFieldsOK(line) ==
    IsFloat(Part(line, 2)) /\ IsInt(Part(line, 9)) /\ IsInt(Part(line, 10))

\* As AddBW with '=' for '+=' on the per-second maps.
AddBWBug(s, second, bwr, bww) ==
    [s EXCEPT !.d.bytes_read = DictPut(@, second, bwr),
              !.total_read = @ + bwr,
              !.d.bytes_written = DictPut(@, second, bww),
              !.total_write = @ + bww]
\* Lines 144-149: the two '+=' into the per-second maps and the totals.
AddBW(s, second, bwr, bww) ==
    [s EXCEPT !.d.bytes_read =
                  DictPut(@, second, (IF second \in DOMAIN @ THEN @[second] ELSE 0) + bwr),
              !.total_read = @ + bwr,
              !.d.bytes_written =
                  DictPut(@, second, (IF second \in DOMAIN @ THEN @[second] ELSE 0) + bww),
              !.total_write = @ + bww]

\* As TakesBW without the test of boot_succeeded.
TakesBWBug(s, line) == MatchBW(line)
\* Does the third branch take the line (line 136)?
TakesBW(s, line) == s.boot_succeeded /\ MatchBW(line)

\* The body of the for loop (lines 129-150) on one line.  ('Outbound' lines are
\* also printed to stdout, which changes no state kept here.)
TorLine(s, line) ==
    IF s.name = None /\ MatchStart(line)
    THEN IF Len(line) < 11 THEN s ELSE [s EXCEPT !.name = Some(Part(line, 10))]
    ELSE IF ~s.boot_succeeded /\ MatchBoot(line)
    THEN [s EXCEPT !.boot_succeeded = TRUE]
    ELSE IF TakesBW(s, line)
    THEN IF Len(line) < 11 THEN s
         ELSE IF ~BWFieldsOK(line) THEN s
         ELSE AddBW(s, TruncTenths(float(Part(line, 2))),
                    int(Part(line, 9)), int(Part(line, 10)))
    ELSE s

RECURSIVE TorScan(_, _, _)
TorScan(s, ls, i) == IF i > Len(ls) THEN s ELSE TorScan(TorLine(s, ls[i]), ls, i + 1)

\* The lines the model reads.
LogPrefix(ts) == <<"2000-01-01", "00:00:10", ts, "[message]", "[host]">>
StartLine(host) == LogPrefix("10.2") \o StartWords \o <<host>>
BootLine == LogPrefix("10.2") \o <<"Bootstrapped", "100%">>
BWLine(ts, bwr, bww) == LogPrefix(ts) \o <<"[torctl]", "[event]", "650", "BW", bwr, bww>>

TorLines ==
    { StartLine("relay1"),
      StartWords,                              \* a start line of fewer than 11 tokens
      BootLine,
      BWLine("10.2", "100", "200"),
      BWLine("10.9", "50", "75"),
      BWLine("11.0", "50", "75"),
      BWLine("10.2", "x", "200"),              \* bytes read is no number
      BWLine("x", "100", "200"),               \* the timestamp is no number
      LogPrefix("10.2") \o <<"[torctl]", "[event]", "650", "BW", "100">>,   \* 10 tokens
      \* a bandwidth report that also holds the start words
      <<"2000-01-01", "00:00:10", "10.9">> \o StartWords \o <<"x", "50", "75", "650", "BW">>,
      \* a bootstrap line that also holds the start words
      LogPrefix("10.2") \o StartWords \o <<"relay2", "Bootstrapped", "100%">>,
      <<"noise">> }


-----------------------------------------------------------------------------
(* File names *)

\* A path is its directory and its base name, the base name split on '-' and
\* each piece split on '.': "stdout-relay1.tor.1000.log" is
\* << <<"stdout">>, <<"relay1", "tor", "1000", "log">> >>.
PathOf(dir, base) == [dir |-> dir, base |-> base]

\* find_file_paths returns ["-"] for standard input; '-'.split('-') is ['', ''].
Stdin == PathOf("", << <<"">>, <<"">> >>)

\* filename.endswith(".xz")
EndsWithXz(f) ==
    LET last == f.base[Len(f.base)]
    IN  Len(last) >= 2 /\ last[Len(last)] = "xz"

\* parse-payment.py line 125: filename.split('/')[-1].split('-')[1].split('.')[0]
\* raises IndexError when the base name has no '-'.
PayNameRaises(f) == Len(f.base) < 2
PayName(f) == f.base[2][1]

\* parse-torctl.py line 152: the name when no start line gave one.
TorFallbackName(s, f) == IF s.name = None THEN [s EXCEPT !.name = Some(f.dir)] ELSE s

Tools == {"payment", "torctl"}

-----------------------------------------------------------------------------
(* SpecParse: one worker's scan of one file, a line at a time *)

Idle == "idle"

\* The values the variables of run() keep while only the scan is looked at.
RunUnused ==
    /\ nprocesses = 1
    /\ par = Idle
    /\ pool = <<>>
    /\ mr = <<>>
    /\ src = <<>>
    /\ outfile = None
    /\ intr = Idle

ParseFiles ==
    { PathOf("hosts/relay1", << <<"stdout">>, <<"relay1", "tor", "1000", "log">> >>),
      Stdin }

InitParse ==
    /\ tool \in Tools
    /\ \E f \in ParseFiles : logfilepaths = <<f>>
    /\ lines = <<>>
    /\ ppc = "scan"
    /\ loc = IF tool = "payment"
             THEN [name |-> Some(PayName(logfilepaths[1])), d |-> NewPaymentRecord]
             ELSE NewTorLocals
    /\ RunUnused

\* One pass of 'for line in source' in process_payment_log.
PayStep ==
    /\ tool = "payment" /\ ppc = "scan"
    /\ Len(lines) < MaxPayLines
    /\ \E line \in PayLines :
        /\ lines' = Append(lines, line)
        /\ loc' = [loc EXCEPT !.d = PayLine(@, line)]
    /\ UNCHANGED <<tool, logfilepaths, ppc, runVars>>

\* One pass of 'for line in source' in process_tor_log.
TorStep ==
    /\ tool = "torctl" /\ ppc = "scan"
    /\ Len(lines) < MaxTorLines
    /\ \E line \in TorLines :
        /\ lines' = Append(lines, line)
        /\ loc' = TorLine(loc, line)
    /\ UNCHANGED <<tool, logfilepaths, ppc, runVars>>

\* End of input: the lines after the loop, up to the return.
EndOfFile ==
    /\ ppc = "scan"
    /\ ppc' = "end"
    /\ loc' = IF tool = "torctl" THEN TorFallbackName(loc, logfilepaths[1]) ELSE loc
    /\ UNCHANGED <<tool, logfilepaths, lines, runVars>>

NextParse == PayStep \/ TorStep \/ EndOfFile

SpecParse == InitParse /\ [][NextParse]_vars


-----------------------------------------------------------------------------
(* The files of a run *)

RelayLog == <<"relay1", "tor", "1000", "log">>

PA == PathOf("hosts/relay1", << <<"stdout">>, RelayLog >>)
PB == PathOf("hosts/copy", << <<"stdout">>, RelayLog \o <<"xz">> >>)
PC == PathOf("hosts/relay2", << <<"stdout">>, <<"relay2", "tor", "1000", "log">> >>)
PD == PathOf("hosts/mixed", << <<"mixed", "tor", "1", "log">> >>)

DiskFiles == {PA, PB, PC, PD}

\* What each file holds, as a payment log and as a control log.
PayContent(f) ==
    IF f = PA THEN << PayLineOf(TRUE, TRUE, PayRec("5", "guard", "1", "0.5")),
                      PayLineOf(TRUE, TRUE, PayRec("5", "guard", "3", "0.5")) >>
    ELSE IF f = PB THEN << PayLineOf(TRUE, TRUE, PayRec("6", "exit", "1", "0.5")) >>
    ELSE IF f = PC THEN << >>
    ELSE << PayLineOf(TRUE, TRUE, PayRec("5", "guard", "3", "0.5")) >>

TorContent(f) ==
    IF f = PA THEN << StartLine("relay1"), BootLine,
                      BWLine("10.2", "100", "200"), BWLine("10.9", "50", "75") >>
    ELSE IF f = PB THEN << StartLine("relay1"), BWLine("10.2", "100", "200") >>
    ELSE IF f = PC THEN << BootLine, BWLine("11.0", "50", "75") >>
    ELSE << BootLine >>

\* The lists find_file_paths can return: ["-"], or the matching files under
\* the search path, each once, in the order os.walk meets them.
PathLists ==
    {<<Stdin>>} \cup
    UNION {{q \in [1..n -> DiskFiles] : \A i, j \in 1..n : i # j => q[i] # q[j]} :
            n \in 0..MaxFiles}

-----------------------------------------------------------------------------
(* source_prepare and source_cleanup (the same in both scripts) *)

NoSource == [kind |-> "none", st |-> "none"]

\* source_prepare: sys.stdin, a spawned xz with its stdout, or an opened file.
SourcePrepare(f) ==
    IF f = Stdin THEN [kind |-> "stdin", st |-> "open"]
    ELSE IF EndsWithXz(f) THEN [kind |-> "xz", st |-> "running"]
    ELSE [kind |-> "file", st |-> "open"]

\* source_cleanup: xzproc.wait(), or source.close() unless the file is '-'.
SourceCleanup(f, source) ==
    IF source.kind = "xz" THEN [source EXCEPT !.st = "reaped"]
    ELSE IF f # Stdin THEN [source EXCEPT !.st = "closed"]
    ELSE source

-----------------------------------------------------------------------------
(* run(): the parent *)

NoNodes == [n \in {} |-> 0]

\* The locals of run() before the merge.  success_count, error_count,
\* total_read and total_write exist in parse-torctl.py only and stay 0 in
\* parse-payment.py.
NewParent(pc, r) ==
    [pc |-> pc, r |-> r, i |-> 1, d |-> [nodes |-> NoNodes],
     name_count |-> 0, noname_count |-> 0, success_count |-> 0, error_count |-> 0,
     total_read |-> 0, total_write |-> 0]

NoInterrupt == [parent |-> "none", worker |-> FALSE]

IdleWorker == [st |-> "idle", disp |-> "default", task |-> 0, pc |-> "-", item |-> None]

Tasks == DOMAIN logfilepaths
Workers == 1..nprocesses

Init ==
    /\ tool \in Tools
    /\ logfilepaths \in PathLists
    /\ nprocesses \in 1..MaxProcs
    /\ par = NewParent("map_async", <<>>)
    /\ pool = [w \in 1..nprocesses |-> IdleWorker]
    /\ mr = [t \in DOMAIN logfilepaths |-> [st |-> "unsent", value |-> None]]
    /\ src = [t \in DOMAIN logfilepaths |-> NoSource]
    /\ outfile = None
    /\ intr = NoInterrupt
    /\ lines = <<>> /\ loc = Idle /\ ppc = Idle

\* Line 94 / 84: mr = p.map_async(process_*_log, logfilepaths)
Submit ==
    /\ par.pc = "map_async"
    /\ mr' = [t \in Tasks |-> [mr[t] EXCEPT !.st = "queued"]]
    /\ par' = [par EXCEPT !.pc = "close"]
    /\ UNCHANGED <<tool, logfilepaths, nprocesses, pool, src, outfile, intr, parseVars>>

\* Line 95 / 85: p.close()
ClosePool ==
    /\ par.pc = "close"
    /\ par' = [par EXCEPT !.pc = "wait"]
    /\ UNCHANGED <<tool, logfilepaths, nprocesses, pool, mr, src, outfile, intr, parseVars>>

\* As ResultList with the values in the opposite order.
ResultListBug(m) == [t \in DOMAIN m |-> m[Len(m) + 1 - t].value]
\* mr.get(): the values in the order of the submitted list.
ResultList(m) == [t \in DOMAIN m |-> m[t].value]

\* Lines 96-97 / 86-87 when every task has returned: r = mr.get(), and the
\* locals of the merge are set up (lines 104-105 / 94-95).
Collect ==
    /\ par.pc = "wait"
    /\ \A t \in Tasks : mr[t].st = "done"
    /\ par' = NewParent("merge", ResultList(mr))
    /\ UNCHANGED <<tool, logfilepaths, nprocesses, pool, mr, src, outfile, intr, parseVars>>

\* Lines 96-97 / 86-87 when a task raised: the MapResult is ready as soon as
\* one task has failed, mr.get() raises that exception again, it is no
\* KeyboardInterrupt, nothing catches it and the run ends with a traceback.
CollectRaises ==
    /\ par.pc = "wait"
    /\ \E t \in Tasks : mr[t].st = "failed"
    /\ par' = [par EXCEPT !.pc = "raised"]
    /\ UNCHANGED <<tool, logfilepaths, nprocesses, pool, mr, src, outfile, intr, parseVars>>

\* d['nodes'][name] = data
MergeNode(nodes, name, data) == DictPut(nodes, name, data)

\* As CountName with the increment left out.
CountNameBug(p) == p
\* name_count += 1
CountName(p) == [p EXCEPT !.name_count = @ + 1]

\* One pass of 'for item in r' (lines 106-114 / 96-112).
MergeOne(p, item) ==
    IF item = None THEN p
    ELSE IF item[1].name = None THEN [p EXCEPT !.noname_count = @ + 1]
    ELSE LET q == [CountName(p) EXCEPT
                      !.d.nodes = MergeNode(@, item[1].name[1], item[1].data)]
         IN  IF tool = "payment" THEN q
             ELSE [q EXCEPT
                      !.success_count = IF item[1].boot_succeeded THEN @ + 1 ELSE @,
                      !.error_count = IF item[1].boot_succeeded THEN @ ELSE @ + 1,
                      !.total_read = @ + item[1].total_read,
                      !.total_write = @ + item[1].total_write]

MergeItem ==
    /\ par.pc = "merge"
    /\ par.i <= Len(par.r)
    /\ par' = [MergeOne(par, par.r[par.i]) EXCEPT !.i = par.i + 1]
    /\ UNCHANGED <<tool, logfilepaths, nprocesses, pool, mr, src, outfile, intr, parseVars>>

\* Line 118 / 116: dump(d, args.prefix, ...JSON)
Dump ==
    /\ par.pc = "merge"
    /\ par.i > Len(par.r)
    /\ outfile' = Some(par.d)
    /\ par' = [par EXCEPT !.pc = "done"]
    /\ UNCHANGED <<tool, logfilepaths, nprocesses, pool, mr, src, intr, parseVars>>

\* As OnKeyboardInterrupt without the sys.exit(): run() goes on with r = [].
OnKeyboardInterruptBug(p) == NewParent("merge", <<>>)
\* The except clause (lines 98-102 / 88-92): p.terminate(), p.join(), sys.exit().
OnKeyboardInterrupt(p) == [p EXCEPT !.pc = "exited"]

InTry(pc) == pc \in {"map_async", "close", "wait"}

\* SIGINT delivered to the parent.  Inside the try the except clause runs;
\* during the merge nothing catches the KeyboardInterrupt and the run ends
\* with a traceback.
ParentSigint ==
    /\ par.pc \in {"map_async", "close", "wait", "merge"}
    /\ intr' = [intr EXCEPT !.parent = par.pc]
    /\ IF InTry(par.pc)
       THEN /\ par' = OnKeyboardInterrupt(par)
            /\ pool' = [w \in Workers |-> [pool[w] EXCEPT !.st = "terminated"]]
       ELSE /\ par' = [par EXCEPT !.pc = "aborted"]
            /\ pool' = pool
    /\ UNCHANGED <<tool, logfilepaths, nprocesses, mr, src, outfile, parseVars>>

-----------------------------------------------------------------------------
(* The workers of the Pool *)

\* A worker takes the next task off the queue.
TakeTask ==
    \E w \in Workers :
    /\ pool[w].st = "idle"
    /\ \E t \in Tasks :
        /\ mr[t].st = "queued"
        /\ \A u \in Tasks : mr[u].st = "queued" => t <= u
        /\ mr' = [mr EXCEPT ![t].st = "running"]
        /\ pool' = [pool EXCEPT ![w] = [@ EXCEPT !.st = "busy", !.task = t, !.pc = "signal"]]
    /\ UNCHANGED <<tool, logfilepaths, nprocesses, par, src, outfile, intr, parseVars>>

Busy(w, pc) == pool[w].st = "busy" /\ pool[w].pc = pc

\* Line 122 / 120: signal(SIGINT, SIG_IGN), the first statement of the task.
IgnoreSigint ==
    \E w \in Workers :
    /\ Busy(w, "signal")
    /\ pool' = [pool EXCEPT ![w] = [@ EXCEPT !.disp = "ignore", !.pc = "prepare"]]
    /\ UNCHANGED <<tool, logfilepaths, nprocesses, par, mr, src, outfile, intr, parseVars>>

\* Line 123 / 121: source, xzproc = source_prepare(filename)
Prepare ==
    \E w \in Workers :
    /\ Busy(w, "prepare")
    /\ src' = [src EXCEPT ![pool[w].task] = SourcePrepare(logfilepaths[pool[w].task])]
    /\ pool' = [pool EXCEPT ![w].pc = IF tool = "payment" THEN "name" ELSE "scan"]
    /\ UNCHANGED <<tool, logfilepaths, nprocesses, par, mr, outfile, intr, parseVars>>

\* parse-payment.py line 125: the name from the base name.  An IndexError
\* leaves process_payment_log at once; the Pool hands it to the MapResult.
DeriveName ==
    \E w \in Workers :
    /\ Busy(w, "name")
    /\ LET t == pool[w].task IN
       IF PayNameRaises(logfilepaths[t])
       THEN /\ mr' = [mr EXCEPT ![t] = [st |-> "failed", value |-> None]]
            /\ pool' = [pool EXCEPT ![w] = [@ EXCEPT !.st = "idle", !.task = 0, !.pc = "-"]]
       ELSE /\ mr' = mr
            /\ pool' = [pool EXCEPT ![w] = [@ EXCEPT !.pc = "scan",
                          !.item = Some([name |-> Some(PayName(logfilepaths[t])),
                                         data |-> NewPaymentRecord])]]
    /\ UNCHANGED <<tool, logfilepaths, nprocesses, par, src, outfile, intr, parseVars>>

\* What process_tor_log returns for a file: lines 123-152 and the list of 155.
TorItem(f) ==
    LET s == TorFallbackName(TorScan(NewTorLocals, TorContent(f), 1), f)
    IN  [name |-> s.name, data |-> s.d, boot_succeeded |-> s.boot_succeeded,
         total_read |-> s.total_read, total_write |-> s.total_write]

\* The for loop over the whole file (and, in parse-torctl.py, line 152).
Scan ==
    \E w \in Workers :
    /\ Busy(w, "scan")
    /\ LET f == logfilepaths[pool[w].task] IN
       pool' = [pool EXCEPT ![w] = [@ EXCEPT !.pc = "cleanup",
                  !.item = IF tool = "payment"
                           THEN Some([@[1] EXCEPT !.data = PayScan(@, PayContent(f), 1)])
                           ELSE Some(TorItem(f))]]
    /\ UNCHANGED <<tool, logfilepaths, nprocesses, par, mr, src, outfile, intr, parseVars>>

\* Line 165 / 154: source_cleanup(filename, source, xzproc)
Cleanup ==
    \E w \in Workers :
    /\ Busy(w, "cleanup")
    /\ src' = [src EXCEPT ![pool[w].task] = SourceCleanup(logfilepaths[pool[w].task], @)]
    /\ pool' = [pool EXCEPT ![w].pc = "return"]
    /\ UNCHANGED <<tool, logfilepaths, nprocesses, par, mr, outfile, intr, parseVars>>

\* Line 166 / 155: return [name, d, ...]; the Pool stores it in the MapResult.
Return ==
    \E w \in Workers :
    /\ Busy(w, "return")
    /\ mr' = [mr EXCEPT ![pool[w].task] = [st |-> "done", value |-> pool[w].item]]
    /\ pool' = [pool EXCEPT ![w] = [@ EXCEPT !.st = "idle", !.task = 0, !.pc = "-", !.item = None]]
    /\ UNCHANGED <<tool, logfilepaths, nprocesses, par, src, outfile, intr, parseVars>>

\* SIGINT delivered to a worker while work is outstanding.  Once the worker
\* has run line 122 / 120 the signal is ignored.  Before that (a worker that
\* waits for its first task, or has just taken it) the disposition is
\* Python's default: KeyboardInterrupt is raised in the worker, which is no
\* Exception, so the worker process ends and a task it held is never answered.
WorkerSigint ==
    \E w \in Workers :
    /\ par.pc \in {"close", "wait"}
    /\ pool[w].st \in {"idle", "busy"}
    /\ IF pool[w].disp = "ignore"
       THEN UNCHANGED <<pool, intr>>
       ELSE /\ pool' = [pool EXCEPT ![w].st = "dead"]
            /\ intr' = [intr EXCEPT !.worker = TRUE]
    /\ UNCHANGED <<tool, logfilepaths, nprocesses, par, mr, src, outfile, parseVars>>

\* The Pool replaces a worker process that has ended by a new one.
Respawn ==
    \E w \in Workers :
    /\ par.pc \in {"close", "wait"}
    /\ pool[w].st = "dead"
    /\ pool' = [pool EXCEPT ![w] = IdleWorker]
    /\ UNCHANGED <<tool, logfilepaths, nprocesses, par, mr, src, outfile, intr, parseVars>>

Next ==
    \/ Submit \/ ClosePool \/ Collect \/ CollectRaises \/ MergeItem \/ Dump
    \/ ParentSigint
    \/ TakeTask \/ IgnoreSigint \/ Prepare \/ DeriveName \/ Scan \/ Cleanup \/ Return
    \/ WorkerSigint \/ Respawn

Spec == Init /\ [][Next]_vars

-----------------------------------------------------------------------------
(* SpecMerge: the merge loop of run() over any list of results *)

MergeNames == {None, Some("relay1"), Some("relay2")}

\* What process_payment_log returns for a file whose name can be derived.
PayItem(f) ==
    [name |-> Some(PayName(f)), data |-> PayScan(NewPaymentRecord, PayContent(f), 1)]

\* The items the loop is run on: None, and items with and without a name.
MergeItems ==
    {None} \cup
    {Some([it EXCEPT !.name = n]) :
        n \in MergeNames,
        it \in IF tool = "payment" THEN {PayItem(PA), PayItem(PC)}
               ELSE {TorItem(PA), TorItem(PB)}}

InitMerge ==
    /\ tool \in Tools
    /\ \E n \in 0..MaxResults : \E r \in [1..n -> MergeItems] : par = NewParent("merge", r)
    /\ logfilepaths = <<>>
    /\ nprocesses = 1
    /\ pool = <<>> /\ mr = <<>> /\ src = <<>>
    /\ outfile = None
    /\ intr = NoInterrupt
    /\ lines = <<>> /\ loc = Idle /\ ppc = Idle

NextMerge == MergeItem \/ Dump

SpecMerge == InitMerge /\ [][NextMerge]_vars

-----------------------------------------------------------------------------
(* Properties of run() (Spec, SpecMerge) *)

\* C1: an interrupt delivered to the parent between the submission of the
\* files and the collection of the results ends the run: the pool is
\* terminated, the parent exits, and no output file is ever written.
C1_InterruptNoOutput ==
    InTry(intr.parent) =>
        /\ par.pc = "exited"
        /\ outfile = None
        /\ \A w \in Workers : pool[w].st = "terminated"

\* C1 witness: the interrupt came while one task had returned and another
\* was still running.
C1_Witness ==
    /\ intr.parent = "wait"
    /\ par.pc = "exited"
    /\ \E t \in Tasks : mr[t].st = "done"
    /\ \E t \in Tasks : mr[t].st = "running"
    /\ outfile = None

\* C3: in the payment tool a file whose base name gives no host name does not
\* fail its task and does not abort the run.
C3_NamelessFileContained ==
    tool = "payment" =>
        /\ par.pc # "raised"
        /\ \A t \in Tasks : PayNameRaises(logfilepaths[t]) => mr[t].st # "failed"

\* The items of r that are not None, those of them without a name, and the
\* names of the others.
NonEmptyIdx(r) == {k \in DOMAIN r : r[k] # None}
NullIdx(r) == {k \in NonEmptyIdx(r) : r[k][1].name = None}
NamesIn(r) == {r[k][1].name[1] : k \in NonEmptyIdx(r) \ NullIdx(r)}

\* C4: after the merge of the N non-empty results name_count + noname_count
\* = N, noname_count is the number of results without a name, and 'nodes' has
\* one entry per distinct name.
C4_MergeCounts ==
    (par.pc \in {"merge", "done"} /\ par.i > Len(par.r)) =>
        /\ par.name_count + par.noname_count = Cardinality(NonEmptyIdx(par.r))
        /\ par.noname_count = Cardinality(NullIdx(par.r))
        /\ DOMAIN par.d.nodes = NamesIn(par.r)
        /\ Cardinality(DOMAIN par.d.nodes) = Cardinality(NamesIn(par.r))

\* C4 witness: three results merged, one without a name and two with the
\* same name.
C4_Witness ==
    /\ par.pc = "done"
    /\ Len(par.r) = 3
    /\ par.noname_count = 1
    /\ par.name_count = 2
    /\ Cardinality(DOMAIN par.d.nodes) = 1

\* C7: when a worker has finished with a file, by a return or by an
\* exception, the source opened for it has been released: the xz subprocess
\* waited for, the file closed; standard input is left open.
C7_SourceReleased ==
    \A t \in Tasks :
        mr[t].st \in {"done", "failed"} =>
            \/ src[t].kind = "xz" /\ src[t].st = "reaped"
            \/ src[t].kind = "file" /\ src[t].st = "closed"
            \/ src[t].kind = "stdin" /\ src[t].st = "open"

\* C9: no worker process ever takes an interrupt itself.
C9_WorkersIgnoreSigint == ~intr.worker

\* What the worker returns for the file of task t.
ItemOf(t) == IF tool = "payment" THEN PayItem(logfilepaths[t]) ELSE TorItem(logfilepaths[t])

\* The document the path list alone determines: under each name the record
\* of the last file of the list with that name.
ExpectedNodes ==
    LET NameOf(t) == ItemOf(t).name[1]
        LastOf(n) == CHOOSE t \in Tasks :
                        NameOf(t) = n /\ \A u \in Tasks : NameOf(u) = n => u <= t
    IN  [n \in {NameOf(t) : t \in Tasks} |-> ItemOf(LastOf(n)).data]

\* C10: the parent writes nothing to the document before every result is
\* collected, and whatever the order in which the workers finish, the
\* document written is the one the path list determines (the later file wins
\* a name).
C10_MergeInListOrder ==
    /\ InTry(par.pc) =>
          (par.d.nodes = NoNodes /\ par.name_count = 0 /\ outfile = None)
    /\ par.pc = "done" => outfile = Some([nodes |-> ExpectedNodes])

\* C10 witness: two workers, two files with the same name, the run done.
C10_Witness ==
    /\ par.pc = "done"
    /\ nprocesses = 2
    /\ logfilepaths = <<PA, PB>>
    /\ DOMAIN outfile[1].nodes = {"relay1"}
    /\ outfile[1].nodes["relay1"] = ItemOf(2).data

-----------------------------------------------------------------------------
(* Properties of the scan (SpecParse) *)

\* The line a step has just read.
ReadLine == Len(lines') = Len(lines) + 1
LastRead == lines'[Len(lines')]

\* A payment record the documentation calls well formed: a brace-delimited
\* record of 'key: value' pairs with every required field, an integer time and
\* numpayments, a channel type, and numbers for the five durations.
PayWellFormed(line) ==
    /\ line.braces
    /\ \A i \in DOMAIN line.pairs : Len(line.pairs[i]) = 2
    /\ {"time", "type"} \cup MetricSet \subseteq {line.pairs[i][1] : i \in DOMAIN line.pairs}
    /\ IsInt(Parsed(line)["time"])
    /\ Parsed(line)["type"] \in ChnTypes
    /\ IsInt(Parsed(line)["numpayments"])
    /\ \A m \in MetricSet \ {"numpayments"} : IsFloat(Parsed(line)[m])

\* C2: every 'mt_log_nanochannel' line whose record fails to parse leaves the
\* PaymentRecord exactly as it was: no bucket created, no value appended.
C2_FailedLineSkippedWhole ==
    [][(tool = "payment" /\ ReadLine /\ LastRead.marker /\ ~PayWellFormed(LastRead))
            => loc'.d = loc.d]_vars

\* A well-formed bandwidth report, by the code's own tests: the 650 BW
\* pattern, at least 11 tokens, a numeric timestamp and two integer counts.
BWWellFormed(line) == MatchBW(line) /\ Len(line) >= 11 /\ BWFieldsOK(line)

BWSecond(line) == TruncTenths(float(Part(line, 2)))
BWRead(line) == int(Part(line, 9))
BWWritten(line) == int(Part(line, 10))

DictGet(f, k) == IF k \in DOMAIN f THEN f[k] ELSE 0

\* The step added the report to both per-second maps and both totals.
BWAdded(line) ==
    /\ loc'.d.bytes_read =
         DictPut(loc.d.bytes_read, BWSecond(line),
                 DictGet(loc.d.bytes_read, BWSecond(line)) + BWRead(line))
    /\ loc'.d.bytes_written =
         DictPut(loc.d.bytes_written, BWSecond(line),
                 DictGet(loc.d.bytes_written, BWSecond(line)) + BWWritten(line))
    /\ loc'.total_read = loc.total_read + BWRead(line)
    /\ loc'.total_write = loc.total_write + BWWritten(line)

BWUntouched ==
    /\ loc'.d = loc.d
    /\ loc'.total_read = loc.total_read
    /\ loc'.total_write = loc.total_write

\* Line i of ls is taken by the first branch, as the start announcement: it
\* holds the start words and no earlier line has given the host name.
TakenAsStart(ls, i) ==
    /\ MatchStart(ls[i])
    /\ ~\E j \in 1..(i - 1) : MatchStart(ls[j]) /\ Len(ls[j]) >= 11

SeenBootMarker(ls) == \E j \in DOMAIN ls : MatchBoot(ls[j])
SeenBootNotStart(ls) == \E j \in DOMAIN ls : MatchBoot(ls[j]) /\ ~TakenAsStart(ls, j)

\* C5 as claimed: the boot flag never falls back; a bandwidth report before
\* the first 'Bootstrapped 100' line changes nothing; every well-formed
\* bandwidth report after it is added.
C5_AsClaimed ==
    [][(tool = "torctl" /\ ReadLine) =>
          /\ loc.boot_succeeded => loc'.boot_succeeded
          /\ ~SeenBootMarker(lines') => BWUntouched
          /\ (SeenBootMarker(lines) /\ BWWellFormed(LastRead)) => BWAdded(LastRead)]_vars

\* C5 amended: as claimed, for the lines the first branch does not take: a
\* line that holds the start words while the host name is still unknown is
\* read as the start announcement only, so such a 'Bootstrapped 100' line
\* does not set the flag and such a bandwidth report is not added.
C5_BootGate ==
    [][(tool = "torctl" /\ ReadLine) =>
          /\ loc.boot_succeeded => loc'.boot_succeeded
          /\ ~SeenBootMarker(lines') => BWUntouched
          /\ ( /\ SeenBootNotStart(lines)
               /\ BWWellFormed(LastRead)
               /\ ~TakenAsStart(lines', Len(lines')) ) => BWAdded(LastRead)]_vars

\* C5 witness: a bandwidth report before the bootstrap line was left out, and
\* one after it was added.
C5_Witness ==
    /\ tool = "torctl"
    /\ lines = <<BWLine("10.2", "100", "200"), BootLine, BWLine("10.9", "50", "75")>>
    /\ loc.boot_succeeded
    /\ loc.d.bytes_read = (10 :> 50)
    /\ loc.total_write = 75

\* The counted lines of ls: the well-formed bandwidth reports read with the
\* boot flag set and not taken as the start announcement.
CountedIdx(ls) ==
    {i \in DOMAIN ls :
        /\ BWWellFormed(ls[i])
        /\ ~TakenAsStart(ls, i)
        /\ SeenBootNotStart(SubSeq(ls, 1, i - 1))}

RECURSIVE SumRead(_, _)
SumRead(S, ls) ==
    IF S = {} THEN 0
    ELSE LET i == CHOOSE x \in S : TRUE IN BWRead(ls[i]) + SumRead(S \ {i}, ls)

RECURSIVE SumWritten(_, _)
SumWritten(S, ls) ==
    IF S = {} THEN 0
    ELSE LET i == CHOOSE x \in S : TRUE IN BWWritten(ls[i]) + SumWritten(S \ {i}, ls)

RECURSIVE SumValues(_, _)
SumValues(f, K) ==
    IF K = {} THEN 0
    ELSE LET k == CHOOSE x \in K : TRUE IN f[k] + SumValues(f, K \ {k})

\* C6: when the scan ends, each per-second entry is the sum of that field
\* over the counted lines of that second, and the totals are the sums over
\* all counted lines, hence over all values of the maps.
C6_SumsPerSecond ==
    (tool = "torctl" /\ ppc = "end") =>
        LET C == CountedIdx(lines)
            At(s) == {i \in C : BWSecond(lines[i]) = s}
            Secs == {BWSecond(lines[i]) : i \in C}
        IN  /\ DOMAIN loc.d.bytes_read = Secs
            /\ DOMAIN loc.d.bytes_written = Secs
            /\ \A s \in Secs :
                  /\ loc.d.bytes_read[s] = SumRead(At(s), lines)
                  /\ loc.d.bytes_written[s] = SumWritten(At(s), lines)
            /\ loc.total_read = SumRead(C, lines)
            /\ loc.total_write = SumWritten(C, lines)
            /\ loc.total_read = SumValues(loc.d.bytes_read, Secs)
            /\ loc.total_write = SumValues(loc.d.bytes_written, Secs)

\* C6 witness: the documented scenario, two reports in second 10.
C6_Witness ==
    /\ tool = "torctl" /\ ppc = "end"
    /\ lines = <<StartLine("relay1"), BootLine,
                 BWLine("10.2", "100", "200"), BWLine("10.9", "50", "75")>>
    /\ loc.name = Some("relay1")
    /\ loc.boot_succeeded
    /\ loc.d.bytes_read = (10 :> 150)
    /\ loc.d.bytes_written = (10 :> 275)
    /\ loc.total_read = 150 /\ loc.total_write = 275

\* C8: at every point of the scan and in the returned record every channel
\* type with all six metrics (payment), and both byte-direction keys (torctl),
\* are there; with no matching line each maps to an empty per-second mapping.
C8_KeysAlwaysPresent ==
    /\ tool = "payment" =>
          /\ DOMAIN loc.d = ChnTypes
          /\ \A c \in ChnTypes : DOMAIN loc.d[c] = MetricSet
          /\ (\A i \in DOMAIN lines : ~lines[i].marker) =>
                \A c \in ChnTypes : \A m \in MetricSet : DOMAIN loc.d[c][m] = {}
    /\ tool = "torctl" =>
          /\ DOMAIN loc.d = {"bytes_read", "bytes_written"}
          /\ (\A i \in DOMAIN lines : ~MatchBW(lines[i])) =>
                (DOMAIN loc.d.bytes_read = {} /\ DOMAIN loc.d.bytes_written = {})

\* C8 witness: a returned payment record after a line that filled buckets and
\* a line of an unknown channel type.
C8_Witness ==
    /\ tool = "payment" /\ ppc = "end"
    /\ Len(lines) = 2
    /\ lines[1] = PayLineOf(TRUE, TRUE, GoodPay)
    /\ lines[2] = PayLineOf(TRUE, TRUE, SetKey(GoodPay, "type", "client"))
    /\ loc.d["guard"]["numpayments"] = (5 :> <<1>>)

=============================================================================
